---------------------------- MODULE Spec2Model ----------------------------
(***************************************************************************)
(* Model of the job simulation engine of app.py: class                     *)
(* BlueQubitJobSimulator (the list self.jobs, the counter                  *)
(* self.job_counter, the bound self.max_jobs, the flag self.running), its  *)
(* methods create_job, update_jobs, get_jobs, clear_completed, get_job and *)
(* simulation_loop, and the request handlers that call them.               *)
(*                                                                         *)
(* Spec         : every handler and every loop iteration runs to           *)
(*                completion before the next one starts (sequential        *)
(*                execution); max_jobs is any of 0..MaxCap.                *)
(* SpecMutators : the same, restricted to the operations that change the   *)
(*                engine (no get_jobs, no get_job); without the read       *)
(*                responses in the state a capacity of MaxCap + 1 is       *)
(*                explored as well.                                        *)
(* SpecConc     : the loop thread and one request thread interleave at the *)
(*                reads and writes of self.jobs and self.job_counter.      *)
(***************************************************************************)
EXTENDS Integers, Sequences, FiniteSets, TLC

\* ------------------------------------------------------------------ bounds
\* Largest max_jobs the constructor is given in the model.
MaxCap == 2
\* Number of jobs create_job builds before the model stops creating.
MaxCreate == 4
\* Clock readings now_iso() can return are 0..MaxTime.
MaxTime == 1
\* Number of jobs create_job builds under SpecConc.
MaxCreateConc == 2

\* Jobs one simulator instance creates in the start-up model.
MaxStartCreate == 1

\* ------------------------------------------------------- values of the code
\* The status strings of app.py.
Statuses == {"QUEUED", "RUNNING", "COMPLETED", "FAILED"}

\* The outcome of the three random draws of one create_job call that the
\* model explores: a type of random.choice([...]), an estimated_runtime of
\* randint(30, 300) and a success_probability of uniform(85.0, 99.5).  No
\* branch of the engine reads type or estimated_runtime, and the only test of
\* success_probability (app.py:101) can go either way for every value drawn.
Draws == { [type |-> "Grover's Algorithm", estimated_runtime |-> 300,
            success_probability |-> 99] }

\* now_iso(): the timestamp string, as the clock reading it encodes.  The
\* strings are compared by get_jobs only; with one display timezone their
\* order is the order of the readings.  Nothing makes two readings differ or
\* increase (clock resolution, clock steps, a changed DISPLAY_TZ).
Times == 0..MaxTime

\* f'BQJ-{n}'
IdOf(n) == <<"BQJ-", n>>

\* The job_id strings a request can carry: every id the model can assign
\* and "BQJ-0", which is never assigned.
RequestIds == {IdOf(n) : n \in 0..MaxCreate}

\* The limit query parameter, int(request.args.get('limit', 50)).
Limits == 0..(MaxCap + 1)

\* ------------------------------------------------------------------- state
VARIABLES
    jobs,         \* self.jobs: the list of job dicts
    job_counter,  \* self.job_counter
    max_jobs,     \* self.max_jobs
    running,      \* self.running
    ret,          \* the response of the handler that ran last; after a loop
                  \* iteration: op "tick", arg the dict it created (0: none)
    assigned,     \* history: the id numbers create_job has put in a job, in order
    evicted,      \* history: the dicts removed by self.jobs.pop(0)
    cleared,      \* history: the COMPLETED dicts clear_completed removed
    pc,           \* per thread: the statement it executes next
    cjob,         \* per thread: the local "job" of create_job (<<>> outside it)
    ctmp,         \* per thread: job_counter as loaded by "self.job_counter += 1"
    kcount,       \* completed_count of the running clear_completed
    kfiltered,    \* the new list of clear_completed, built and not yet stored
    simulator,    \* the module global "simulator": 0 for None, else an instance
    instances,    \* every BlueQubitJobSimulator constructed so far, in order
    spc,          \* per request of the start-up model: call site and statement
    sobj          \* per request: the instance its constructor call returned

\* The locals and program counters of the two threads.
threads == <<pc, cjob, ctmp, kcount, kfiltered>>

\* The state of lazy start-up (app.py:144-159).  Only SpecStart moves it: the
\* other specifications begin once the simulator has been constructed.
startup == <<simulator, instances, spc, sobj>>

\* The state of the one simulator the engine specifications are about.
engine == <<jobs, job_counter, max_jobs, running, ret, assigned, evicted,
            cleared, threads>>

vars == <<engine, startup>>

\* The background thread started by start_simulation and one thread of the
\* server that runs request handlers.
Threads == {"loop", "req"}

\* ----------------------------------------------------------------- helpers
Range(s) == {s[i] : i \in 1..Len(s)}

\* Mutant of NewJob: the manual argument is ignored.
NewJobNeverManual(oid, counter, draw, now, manual) ==
    [oid |-> oid,
     id |-> IdOf(counter),
     type |-> draw.type,
     status |-> "QUEUED",
     created_at |-> now,
     estimated_runtime |-> draw.estimated_runtime,
     success_probability |-> draw.success_probability,
     manual |-> FALSE]

\* Mutant of NewJob: the job is created RUNNING.
NewJobStarted(oid, counter, draw, now, manual) ==
    [oid |-> oid,
     id |-> IdOf(counter),
     type |-> draw.type,
     status |-> "RUNNING",
     created_at |-> now,
     estimated_runtime |-> draw.estimated_runtime,
     success_probability |-> draw.success_probability,
     manual |-> manual]

\* The dict built at app.py:69-83.  oid is the identity of the dict object
\* (the n-th dict create_job allocated); the other fields are its keys.
NewJob(oid, counter, draw, now, manual) ==
    [oid |-> oid,
     id |-> IdOf(counter),
     type |-> draw.type,
     status |-> "QUEUED",
     created_at |-> now,
     estimated_runtime |-> draw.estimated_runtime,
     success_probability |-> draw.success_probability,
     manual |-> manual]

\* Mutant of NextCounter: the increment is lost.
NextCounterStuck(c) == c

\* app.py:84: self.job_counter += 1
NextCounter(c) == c + 1

\* Mutant of AppendAndTrim: the bound is tested off by one, so the list may
\* hold max_jobs + 1 dicts.
AppendAndTrimLate(js, job, cap) ==
    LET appended == Append(js, job)
    IN  IF Len(appended) > cap + 1 THEN Tail(appended) ELSE appended

\* Mutant of AppendAndTrim: pop() instead of pop(0) drops the newest dict.
AppendAndTrimPopLast(js, job, cap) ==
    LET appended == Append(js, job)
    IN  IF Len(appended) > cap THEN SubSeq(appended, 1, Len(appended) - 1)
        ELSE appended

\* Mutant of AppendAndTrim: insert(0, job) instead of append(job).
AppendAndTrimFront(js, job, cap) ==
    LET inserted == <<job>> \o js
    IN  IF Len(inserted) > cap THEN Tail(inserted) ELSE inserted

\* app.py:85-89: append, then pop(0) when the list is longer than max_jobs.
AppendAndTrim(js, job, cap) ==
    LET appended == Append(js, job)
    IN  IF Len(appended) > cap THEN Tail(appended) ELSE appended

\* The dicts AppendAndTrim pops.
Popped(js, job, cap) ==
    LET appended == Append(js, job)
    IN  IF Len(appended) > cap THEN {Head(appended)} ELSE {}

\* app.py:101: random.random() < success_probability / 100 decides between
\* COMPLETED and FAILED; random() is in [0, 1).
TerminalOutcomes(job) ==
    (IF job.success_probability > 0 THEN {"COMPLETED"} ELSE {})
    \cup (IF job.success_probability < 100 THEN {"FAILED"} ELSE {})

\* Mutant of StepChoices: a FAILED job is put back in the queue.
StepChoicesRetry(job) ==
    CASE job.status = "QUEUED"  -> {"QUEUED", "RUNNING"}
      [] job.status = "RUNNING" -> {"RUNNING"} \cup TerminalOutcomes(job)
      [] job.status = "FAILED"  -> {"FAILED", "QUEUED"}
      [] OTHER                  -> {job.status}

\* Mutant of StepChoices: "if" instead of "elif" at app.py:99, so a job that
\* has just become RUNNING is tested again in the same pass.
StepChoicesFallThrough(job) ==
    CASE job.status = "QUEUED"  ->
           {"QUEUED", "RUNNING"} \cup TerminalOutcomes(job)
      [] job.status = "RUNNING" -> {"RUNNING"} \cup TerminalOutcomes(job)
      [] OTHER                  -> {job.status}

\* Mutant of StepChoices: the "elif" branch at app.py:99-101 is missing, so a
\* RUNNING job never finishes.
StepChoicesNoFinish(job) ==
    CASE job.status = "QUEUED"  -> {"QUEUED", "RUNNING"}
      [] OTHER                  -> {job.status}

\* app.py:96-101: the statuses one pass of the loop body can leave a job in.
StepChoices(job) ==
    CASE job.status = "QUEUED"  -> {"QUEUED", "RUNNING"}
      [] job.status = "RUNNING" -> {"RUNNING"} \cup TerminalOutcomes(job)
      [] OTHER                  -> {job.status}

\* Mutant of UpdateResults: each pass also takes the two seconds of a loop
\* iteration off estimated_runtime.
UpdateResultsCountdown(js) ==
    { [i \in 1..Len(js) |->
          [js[i] EXCEPT !.status = f[i],
                        !.estimated_runtime = js[i].estimated_runtime - 2]] :
        f \in { g \in [1..Len(js) -> Statuses] :
                  \A i \in 1..Len(js) : g[i] \in StepChoices(js[i]) } }

\* update_jobs: every list the for loop can leave, one draw per job.
UpdateResults(js) ==
    { [i \in 1..Len(js) |-> [js[i] EXCEPT !.status = f[i]]] :
        f \in { g \in [1..Len(js) -> Statuses] :
                  \A i \in 1..Len(js) : g[i] \in StepChoices(js[i]) } }

\* app.py:106
status_order(s) ==
    CASE s = "RUNNING" -> 0 [] s = "QUEUED" -> 1 [] s = "FAILED" -> 2
      [] s = "COMPLETED" -> 3

\* Mutant of KeyLeq: the key is the status rank alone.
KeyLeqStatusOnly(a, b) == status_order(a.status) <= status_order(b.status)

\* app.py:107: the sort key and the order of two keys (tuple comparison).
KeyLeq(a, b) ==
    \/ status_order(a.status) < status_order(b.status)
    \/ /\ status_order(a.status) = status_order(b.status)
       /\ a.created_at <= b.created_at

\* sorted() is stable: x goes behind every element whose key is not greater.
RECURSIVE InsertSorted(_, _)
InsertSorted(s, x) ==
    IF s = <<>> THEN <<x>>
    ELSE IF KeyLeq(Head(s), x) THEN <<Head(s)>> \o InsertSorted(Tail(s), x)
    ELSE <<x>> \o s

RECURSIVE SortedJobs(_)
SortedJobs(js) ==
    IF js = <<>> THEN <<>>
    ELSE InsertSorted(SortedJobs(SubSeq(js, 1, Len(js) - 1)), js[Len(js)])

\* Python's s[-limit:]: a negative start counts from the end and is clamped
\* to 0, a start of 0 or more counts from the front and is clamped to len(s).
SliceFrom(s, start) ==
    LET n == Len(s)
        from == IF start < 0
                THEN (IF n + start < 0 THEN 0 ELSE n + start)
                ELSE (IF start > n THEN n ELSE start)
    IN  SubSeq(s, from + 1, n)

\* get_jobs, app.py:103-108
get_jobs(js, limit) == SliceFrom(SortedJobs(js), 0 - limit)

\* Mutant of JobsAfterSorted: self.jobs.sort(key=...) orders the list itself.
JobsAfterSortInPlace(js) == SortedJobs(js)

\* app.py:107: sorted() returns a new list; self.jobs is what it was.
JobsAfterSorted(js) == js

\* Mutant of get_job: after a search without a hit the loop variable (the
\* last dict of the list) is returned instead of {}.
get_jobLoopVar(js, job_id) ==
    LET hits == SelectSeq(js, LAMBDA j : j.id = job_id)
    IN  IF hits # <<>> THEN <<Head(hits)>>
        ELSE IF js # <<>> THEN <<js[Len(js)]>> ELSE <<>>

\* get_job, app.py:116-121: the first dict with that id as a one-element
\* sequence, the empty dict {} as the empty sequence.
get_job(js, job_id) ==
    LET hits == SelectSeq(js, LAMBDA j : j.id = job_id)
    IN  IF hits = <<>> THEN <<>> ELSE <<Head(hits)>>

\* Mutant of NotCompletedOf: FAILED jobs are filtered out as well.
NotCompletedOfNorFailed(js) ==
    SelectSeq(js, LAMBDA j : j.status \notin {"COMPLETED", "FAILED"})

\* The two list comprehensions of clear_completed, app.py:112-113.
CompletedOf(js) == SelectSeq(js, LAMBDA j : j.status = "COMPLETED")

NotCompletedOf(js) == SelectSeq(js, LAMBDA j : j.status # "COMPLETED")

\* A response: the handler, its argument, the HTTP status, the jobs in the
\* body and removed_count.
Response(op, arg, code, body, count) ==
    [op |-> op, arg |-> arg, code |-> code, jobs |-> body, count |-> count]

\* ----------------------------------------------------------------- start-up
\* Two requests the server handles at once, each on a thread of its own.
Requests == {"r1", "r2"}

\* The two places start_simulator_once is called from: the before_request
\* hook (app.py:157-159) and the first statement of a handler (app.py:195).
FirstCall == "before_request"
SecondCall == "handler"

\* The module as imported (app.py:144): no simulator, no request under way.
StartupIdle ==
    /\ simulator = 0
    /\ instances = <<>>
    /\ spc = [r \in Requests |-> <<FirstCall, "test">>]
    /\ sobj = [r \in Requests |-> 0]

\* -------------------------------------------------------------------- Init
\* BlueQubitJobSimulator.__init__, with max_jobs any capacity 0..MaxCap.
Init ==
    /\ jobs = <<>>
    /\ job_counter = 1
    /\ running = TRUE
    /\ max_jobs \in 0..MaxCap
    /\ ret = Response("none", 0, 0, <<>>, 0)
    /\ assigned = <<>>
    /\ evicted = {}
    /\ cleared = {}
    /\ pc = [t \in Threads |-> IF t = "loop" THEN "while" ELSE "idle"]
    /\ cjob = [t \in Threads |-> <<>>]
    /\ ctmp = [t \in Threads |-> 0]
    /\ kcount = 0
    /\ kfiltered = <<>>
    /\ StartupIdle

\* ------------------------------------------------- sequential operations
\* POST /api/create_job: simulator.create_job(manual=True).
create_job_api ==
    /\ Len(assigned) < MaxCreate
    /\ \E draw \in Draws, now \in Times :
         LET job == NewJob(Len(assigned) + 1, job_counter, draw, now, TRUE)
         IN  /\ jobs' = AppendAndTrim(jobs, job, max_jobs)
             /\ evicted' = evicted \cup {j.oid : j \in Popped(jobs, job, max_jobs)}
             /\ assigned' = Append(assigned, job_counter)
             /\ ret' = Response("create_job", TRUE, 200, <<job>>, 0)
    /\ job_counter' = NextCounter(job_counter)
    /\ UNCHANGED <<max_jobs, startup, running, cleared, threads>>

\* One iteration of simulation_loop in which random.random() < 0.5:
\* create_job() and then update_jobs().
TickCreate ==
    /\ running
    /\ Len(assigned) < MaxCreate
    /\ \E draw \in Draws, now \in Times :
         LET job == NewJob(Len(assigned) + 1, job_counter, draw, now, FALSE)
         IN  /\ jobs' \in UpdateResults(AppendAndTrim(jobs, job, max_jobs))
             /\ evicted' = evicted \cup {j.oid : j \in Popped(jobs, job, max_jobs)}
             /\ assigned' = Append(assigned, job_counter)
    /\ job_counter' = NextCounter(job_counter)
    /\ ret' = Response("tick", Len(assigned) + 1, 0, <<>>, 0)
    /\ UNCHANGED <<max_jobs, startup, running, cleared, threads>>

\* One iteration of simulation_loop that only calls update_jobs().
TickUpdate ==
    /\ running
    /\ jobs' \in UpdateResults(jobs)
    /\ ret' = Response("tick", 0, 0, <<>>, 0)
    /\ UNCHANGED <<job_counter, max_jobs, startup, running, assigned, evicted, cleared, threads>>

\* POST /api/clear_completed
clear_completed_api ==
    /\ jobs' = NotCompletedOf(jobs)
    /\ cleared' = cleared \cup {j.oid : j \in Range(CompletedOf(jobs))}
    /\ ret' = Response("clear_completed", 0, 200, <<>>, Len(CompletedOf(jobs)))
    /\ UNCHANGED <<job_counter, max_jobs, startup, running, assigned, evicted, threads>>

\* GET /api/jobs?limit=...
get_jobs_api ==
    /\ \E limit \in Limits :
         ret' = Response("get_jobs", limit, 200, get_jobs(jobs, limit), 0)
    /\ jobs' = JobsAfterSorted(jobs)
    /\ UNCHANGED <<job_counter, max_jobs, startup, running, assigned, evicted,
                   cleared, threads>>

\* GET /api/job/<job_id>
get_job_api ==
    /\ \E job_id \in RequestIds :
         LET job == get_job(jobs, job_id)
         IN  ret' = Response("get_job", job_id,
                             IF job # <<>> THEN 200 ELSE 404, job, 0)
    /\ UNCHANGED <<jobs, job_counter, max_jobs, startup, running, assigned, evicted, cleared, threads>>

Next ==
    \/ create_job_api
    \/ TickCreate
    \/ TickUpdate
    \/ clear_completed_api
    \/ get_jobs_api
    \/ get_job_api

Spec == Init /\ [][Next]_vars

\* The operations that change the engine, for capacities up to MaxCap + 1.
InitMutators ==
    /\ jobs = <<>>
    /\ job_counter = 1
    /\ running = TRUE
    /\ max_jobs \in 0..(MaxCap + 1)
    /\ ret = Response("none", 0, 0, <<>>, 0)
    /\ assigned = <<>>
    /\ evicted = {}
    /\ cleared = {}
    /\ pc = [t \in Threads |-> IF t = "loop" THEN "while" ELSE "idle"]
    /\ cjob = [t \in Threads |-> <<>>]
    /\ ctmp = [t \in Threads |-> 0]
    /\ kcount = 0
    /\ kfiltered = <<>>
    /\ StartupIdle

NextMutators ==
    \/ create_job_api
    \/ TickCreate
    \/ TickUpdate
    \/ clear_completed_api

SpecMutators == InitMutators /\ [][NextMutators]_vars

\* ---------------------------------------------------- concurrent execution
\* The two threads run the same methods on the same object without a lock.
\* A thread switch can fall between any two of the steps below; each step is
\* one read or one write of self.jobs or self.job_counter.  update_jobs is
\* one step (one pass of its for loop without a switch), and the sleep of the
\* loop is part of that step.

\* The dicts of a list are shared objects: a status written through
\* self.jobs is seen through every other reference to the same dict.
Aliased(s, js) ==
    [i \in 1..Len(s) |->
        IF \E k \in Range(js) : k.oid = s[i].oid
        THEN CHOOSE k \in Range(js) : k.oid = s[i].oid
        ELSE s[i]]

\* Creations that are decided and have not read the counter yet.
Starting == {t \in Threads : pc[t] = "c_id"}

MayCreate == Len(assigned) + Cardinality(Starting) < MaxCreateConc

\* create_job returns: the loop goes on to update_jobs (app.py:129), the
\* handler answers with the job (app.py:215).
CreateReturns(t, js) ==
    /\ pc' = [pc EXCEPT ![t] = IF t = "loop" THEN "update" ELSE "idle"]
    /\ cjob' = [cjob EXCEPT ![t] = <<>>]
    /\ ret' = IF t = "loop" THEN ret
              ELSE Response("create_job", TRUE, 200, Aliased(cjob[t], js), 0)

\* Mutant of LoopWhile: "while True:", the flag is not read.
LoopWhileTrue ==
    /\ pc["loop"] = "while"
    /\ pc' = [pc EXCEPT !["loop"] = "coin"]
    /\ UNCHANGED <<jobs, job_counter, max_jobs, startup, running, ret, assigned,
                   evicted, cleared, cjob, ctmp, kcount, kfiltered>>

\* app.py:125: while self.running
LoopWhile ==
    /\ pc["loop"] = "while"
    /\ pc' = [pc EXCEPT !["loop"] = IF running THEN "coin" ELSE "exit"]
    /\ UNCHANGED <<jobs, job_counter, max_jobs, startup, running, ret, assigned, evicted,
                   cleared, cjob, ctmp, kcount, kfiltered>>

\* app.py:127-128: random.random() < 0.5, so create_job() is called.
LoopCoinCreate ==
    /\ pc["loop"] = "coin"
    /\ MayCreate
    /\ pc' = [pc EXCEPT !["loop"] = "c_id"]
    /\ UNCHANGED <<jobs, job_counter, max_jobs, startup, running, ret, assigned, evicted,
                   cleared, cjob, ctmp, kcount, kfiltered>>

\* app.py:127: random.random() >= 0.5, no job is created.
LoopCoinSkip ==
    /\ pc["loop"] = "coin"
    /\ pc' = [pc EXCEPT !["loop"] = "update"]
    /\ UNCHANGED <<jobs, job_counter, max_jobs, startup, running, ret, assigned, evicted,
                   cleared, cjob, ctmp, kcount, kfiltered>>

\* app.py:129-130: update_jobs() and the sleep.  The dicts of self.jobs change
\* in place, so the list clear_completed has built sees the new statuses.
LoopUpdate ==
    /\ pc["loop"] = "update"
    /\ jobs' \in UpdateResults(jobs)
    /\ kfiltered' = Aliased(kfiltered, jobs')
    /\ cjob' = [t \in Threads |->
                  IF pc[t] \in {"c_len", "c_pop"} THEN Aliased(cjob[t], jobs')
                  ELSE cjob[t]]
    /\ pc' = [pc EXCEPT !["loop"] = "while"]
    /\ UNCHANGED <<job_counter, max_jobs, startup, running, ret, assigned, evicted,
                   cleared, ctmp, kcount>>

\* POST /api/create_job arrives: create_job(manual=True) is called.
ReqCreate ==
    /\ pc["req"] = "idle"
    /\ MayCreate
    /\ pc' = [pc EXCEPT !["req"] = "c_id"]
    /\ UNCHANGED <<jobs, job_counter, max_jobs, startup, running, ret, assigned, evicted,
                   cleared, cjob, ctmp, kcount, kfiltered>>

\* POST /api/clear_completed arrives.
ReqClear ==
    /\ pc["req"] = "idle"
    /\ pc' = [pc EXCEPT !["req"] = "k_count"]
    /\ UNCHANGED <<jobs, job_counter, max_jobs, startup, running, ret, assigned, evicted,
                   cleared, cjob, ctmp, kcount, kfiltered>>

\* app.py:69-83: the dict is built; its id is the counter as read now.
CreateBuild(t) ==
    /\ pc[t] = "c_id"
    /\ \E draw \in Draws, now \in Times :
         cjob' = [cjob EXCEPT ![t] =
                    <<NewJob(Len(assigned) + 1, job_counter, draw, now, t = "req")>>]
    /\ assigned' = Append(assigned, job_counter)
    /\ pc' = [pc EXCEPT ![t] = "c_load"]
    /\ UNCHANGED <<jobs, job_counter, max_jobs, startup, running, ret, evicted, cleared,
                   ctmp, kcount, kfiltered>>

\* app.py:84, first half: the counter is loaded.
CreateLoad(t) ==
    /\ pc[t] = "c_load"
    /\ ctmp' = [ctmp EXCEPT ![t] = job_counter]
    /\ pc' = [pc EXCEPT ![t] = "c_store"]
    /\ UNCHANGED <<jobs, job_counter, max_jobs, startup, running, ret, assigned, evicted,
                   cleared, cjob, kcount, kfiltered>>

\* app.py:84, second half: the loaded value plus one is stored.
CreateStore(t) ==
    /\ pc[t] = "c_store"
    /\ job_counter' = NextCounter(ctmp[t])
    /\ ctmp' = [ctmp EXCEPT ![t] = 0]
    /\ pc' = [pc EXCEPT ![t] = "c_append"]
    /\ UNCHANGED <<jobs, max_jobs, startup, running, ret, assigned, evicted, cleared,
                   cjob, kcount, kfiltered>>

\* app.py:85: self.jobs.append(job)
CreateAppend(t) ==
    /\ pc[t] = "c_append"
    /\ jobs' = Append(jobs, cjob[t][1])
    /\ pc' = [pc EXCEPT ![t] = "c_len"]
    /\ UNCHANGED <<job_counter, max_jobs, startup, running, ret, assigned, evicted,
                   cleared, cjob, ctmp, kcount, kfiltered>>

\* app.py:88: len(self.jobs) > self.max_jobs
CreateTest(t) ==
    /\ pc[t] = "c_len"
    /\ IF Len(jobs) > max_jobs
       THEN /\ pc' = [pc EXCEPT ![t] = "c_pop"]
            /\ UNCHANGED <<cjob, ret>>
       ELSE CreateReturns(t, jobs)
    /\ UNCHANGED <<jobs, job_counter, max_jobs, startup, running, assigned, evicted,
                   cleared, ctmp, kcount, kfiltered>>

\* app.py:89: self.jobs.pop(0).  On a list that has become empty it raises
\* IndexError: the loop thread ends, the handler answers 500.
CreatePop(t) ==
    /\ pc[t] = "c_pop"
    /\ IF jobs = <<>>
       THEN /\ pc' = [pc EXCEPT ![t] = IF t = "loop" THEN "dead" ELSE "idle"]
            /\ cjob' = [cjob EXCEPT ![t] = <<>>]
            /\ ret' = IF t = "loop" THEN ret
                      ELSE Response("create_job", TRUE, 500, <<>>, 0)
            /\ UNCHANGED <<jobs, evicted>>
       ELSE /\ jobs' = Tail(jobs)
            /\ evicted' = evicted \cup {Head(jobs).oid}
            /\ CreateReturns(t, jobs')
    /\ UNCHANGED <<job_counter, max_jobs, startup, running, assigned, cleared, ctmp,
                   kcount, kfiltered>>

\* app.py:112: completed_count
ClearCount ==
    /\ pc["req"] = "k_count"
    /\ kcount' = Len(CompletedOf(jobs))
    /\ pc' = [pc EXCEPT !["req"] = "k_filter"]
    /\ UNCHANGED <<jobs, job_counter, max_jobs, startup, running, ret, assigned, evicted,
                   cleared, cjob, ctmp, kfiltered>>

\* app.py:113, right-hand side: the new list is built.
ClearFilter ==
    /\ pc["req"] = "k_filter"
    /\ kfiltered' = NotCompletedOf(jobs)
    /\ pc' = [pc EXCEPT !["req"] = "k_store"]
    /\ UNCHANGED <<jobs, job_counter, max_jobs, startup, running, ret, assigned, evicted,
                   cleared, cjob, ctmp, kcount>>

\* app.py:113-114, the assignment to self.jobs and the return.
ClearStore ==
    /\ pc["req"] = "k_store"
    /\ jobs' = kfiltered
    /\ cleared' = cleared \cup
                    {j.oid : j \in {k \in Range(jobs) :
                                      /\ k.status = "COMPLETED"
                                      /\ \A f \in Range(kfiltered) : f.oid # k.oid}}
    /\ ret' = Response("clear_completed", 0, 200, <<>>, kcount)
    /\ kcount' = 0
    /\ kfiltered' = <<>>
    /\ pc' = [pc EXCEPT !["req"] = "idle"]
    /\ UNCHANGED <<job_counter, max_jobs, startup, running, assigned, evicted, cjob, ctmp>>

NextConc ==
    \/ LoopWhile
    \/ LoopCoinCreate
    \/ LoopCoinSkip
    \/ LoopUpdate
    \/ ReqCreate
    \/ ReqClear
    \/ \E t \in Threads : CreateBuild(t)
    \/ \E t \in Threads : CreateLoad(t)
    \/ \E t \in Threads : CreateStore(t)
    \/ \E t \in Threads : CreateAppend(t)
    \/ \E t \in Threads : CreateTest(t)
    \/ \E t \in Threads : CreatePop(t)
    \/ ClearCount
    \/ ClearFilter
    \/ ClearStore

\* The engine as constructed, with a capacity of at least one job.
InitConc ==
    /\ jobs = <<>>
    /\ job_counter = 1
    /\ running = TRUE
    /\ max_jobs \in 1..MaxCap
    /\ ret = Response("none", 0, 0, <<>>, 0)
    /\ assigned = <<>>
    /\ evicted = {}
    /\ cleared = {}
    /\ pc = [t \in Threads |-> IF t = "loop" THEN "while" ELSE "idle"]
    /\ cjob = [t \in Threads |-> <<>>]
    /\ ctmp = [t \in Threads |-> 0]
    /\ kcount = 0
    /\ kfiltered = <<>>
    /\ StartupIdle

SpecConc == InitConc /\ [][NextConc]_vars

\* ======================================================== stopping the loop
\* The owner of the engine clears the run flag ("simulator.running = False").
\* No statement of app.py does so; the step stands for the shutdown the
\* specification describes.
Stop ==
    /\ running
    /\ running' = FALSE
    /\ UNCHANGED <<jobs, job_counter, max_jobs, startup, ret, assigned, evicted,
                   cleared, threads>>

\* A step of the loop thread.
LoopStep ==
    \/ LoopWhile
    \/ LoopCoinCreate
    \/ LoopCoinSkip
    \/ LoopUpdate
    \/ CreateBuild("loop")
    \/ CreateLoad("loop")
    \/ CreateStore("loop")
    \/ CreateAppend("loop")
    \/ CreateTest("loop")
    \/ CreatePop("loop")

NextStop ==
    \/ NextConc
    \/ Stop

\* The loop thread is scheduled again and again, and time.sleep returns.
SpecStop == InitConc /\ [][NextStop]_vars /\ WF_vars(LoopStep)

\* ============================================================ fair ticking
\* The dict with identity o is in the collection with status st.
HasStatus(o, st) == \E i \in 1..Len(jobs) : jobs[i].oid = o /\ jobs[i].status = st

\* An iteration of simulation_loop in which random.random() falls below the
\* threshold for job o (app.py:97, 99), so that update_jobs changes its status.
\* An iteration that creates no job is possible whenever the loop runs.
Advances(o) ==
    /\ TickUpdate
    /\ \E i \in 1..Len(jobs), k \in 1..Len(jobs') :
         /\ jobs[i].oid = o
         /\ jobs'[k].oid = o
         /\ jobs'[k].status # jobs[i].status

\* The loop thread keeps iterating (app.py:125-130, running stays True) and no
\* job's draw stays above its threshold for ever.
FairTicks == \A o \in 1..MaxCreate : WF_vars(Advances(o))

SpecLive == Init /\ [][NextMutators]_vars /\ FairTicks

\* ================================================= lazy start-up, threads
\* start_simulator_once (app.py:147-151) reads the global, and when it is None
\* constructs a simulator and stores it: three steps with no lock, run by each
\* request thread.  Every constructed instance owns a loop thread (app.py:65)
\* that nothing stops.

\* max_jobs of BlueQubitJobSimulator() called without arguments (app.py:60).
DefaultMaxJobs == 200

\* The fields __init__ sets (app.py:61-64).
NewSimulator ==
    [jobs |-> <<>>, job_counter |-> 1, running |-> TRUE,
     max_jobs |-> DefaultMaxJobs]

\* Where a call of start_simulator_once returns to.
AfterStart(site) ==
    IF site = FirstCall THEN <<SecondCall, "test">> ELSE <<SecondCall, "body">>

\* "if simulator is None:" (app.py:150).
StartTest(r) ==
    /\ spc[r][2] = "test"
    /\ spc' = [spc EXCEPT ![r] = IF simulator = 0
                                 THEN <<spc[r][1], "construct">>
                                 ELSE AfterStart(spc[r][1])]
    /\ UNCHANGED <<engine, simulator, instances, sobj>>

\* "BlueQubitJobSimulator()" (app.py:151, 60-65): a new instance whose loop
\* thread is started by the constructor.
StartConstruct(r) ==
    /\ spc[r][2] = "construct"
    /\ instances' = Append(instances, NewSimulator)
    /\ sobj' = [sobj EXCEPT ![r] = Len(instances) + 1]
    /\ spc' = [spc EXCEPT ![r] = <<spc[r][1], "assign">>]
    /\ UNCHANGED <<engine, simulator>>

\* "simulator = ..." (app.py:151): the store to the global.
StartAssign(r) ==
    /\ spc[r][2] = "assign"
    /\ simulator' = sobj[r]
    /\ sobj' = [sobj EXCEPT ![r] = 0]
    /\ spc' = [spc EXCEPT ![r] = AfterStart(spc[r][1])]
    /\ UNCHANGED <<engine, instances>>

\* create_job (app.py:67-91) on instance i.
InstanceCreate(i, manual) ==
    LET sim == instances[i]
        job == NewJob(sim.job_counter, sim.job_counter,
                      CHOOSE draw \in Draws : TRUE, 0, manual)
    IN  [sim EXCEPT !.jobs = AppendAndTrim(sim.jobs, job, sim.max_jobs),
                    !.job_counter = NextCounter(sim.job_counter)]

\* The body of create_job_api (app.py:213): simulator.create_job(manual=True)
\* on whatever instance the global names now; then the thread takes its next
\* request.
HandlerCreate(r) ==
    /\ spc[r] = <<SecondCall, "body">>
    /\ instances[simulator].job_counter <= MaxStartCreate
    /\ instances' = [instances EXCEPT ![simulator] = InstanceCreate(simulator, TRUE)]
    /\ spc' = [spc EXCEPT ![r] = <<FirstCall, "test">>]
    /\ UNCHANGED <<engine, simulator, sobj>>

\* The body of a handler that only reads (app.py:196, 204, 240).
HandlerRead(r) ==
    /\ spc[r] = <<SecondCall, "body">>
    /\ spc' = [spc EXCEPT ![r] = <<FirstCall, "test">>]
    /\ UNCHANGED <<engine, simulator, instances, sobj>>

\* One iteration of the loop thread of instance i that creates a job
\* (app.py:125-130).
InstanceTickCreate(i) ==
    /\ instances[i].running
    /\ instances[i].job_counter <= MaxStartCreate
    /\ \E js \in UpdateResults(InstanceCreate(i, FALSE).jobs) :
         instances' = [instances EXCEPT ![i] =
                          [InstanceCreate(i, FALSE) EXCEPT !.jobs = js]]
    /\ UNCHANGED <<engine, simulator, spc, sobj>>

\* One iteration of the loop thread of instance i that creates no job.
InstanceTickUpdate(i) ==
    /\ instances[i].running
    /\ \E js \in UpdateResults(instances[i].jobs) :
         instances' = [instances EXCEPT ![i].jobs = js]
    /\ UNCHANGED <<engine, simulator, spc, sobj>>

NextStart ==
    \/ \E r \in Requests : StartTest(r)
    \/ \E r \in Requests : StartConstruct(r)
    \/ \E r \in Requests : StartAssign(r)
    \/ \E r \in Requests : HandlerCreate(r)
    \/ \E r \in Requests : HandlerRead(r)
    \/ \E i \in 1..Len(instances) : InstanceTickCreate(i)
    \/ \E i \in 1..Len(instances) : InstanceTickUpdate(i)

\* The module as imported; the engine variables of the other specifications
\* rest at their constructed values.
InitStart ==
    /\ jobs = <<>>
    /\ job_counter = 1
    /\ running = TRUE
    /\ max_jobs = DefaultMaxJobs
    /\ ret = Response("none", 0, 0, <<>>, 0)
    /\ assigned = <<>>
    /\ evicted = {}
    /\ cleared = {}
    /\ pc = [t \in Threads |-> IF t = "loop" THEN "while" ELSE "idle"]
    /\ cjob = [t \in Threads |-> <<>>]
    /\ ctmp = [t \in Threads |-> 0]
    /\ kcount = 0
    /\ kfiltered = <<>>
    /\ StartupIdle

SpecStart == InitStart /\ [][NextStart]_vars

\* ======================================================== claims, sequential
IdsOf(js) == [i \in 1..Len(js) |-> js[i].id]

IsCreateStep == Len(assigned') = Len(assigned) + 1

\* C1: the id numbers create_job assigns are strictly increasing in the order
\* of the calls, whatever operations run in between, so no id is assigned
\* twice, evicted and cleared jobs included; every job of the collection
\* carries the id it was assigned and no two of them share one.
C1_IdsStrictlyIncreasing ==
    /\ \A i, k \in 1..Len(assigned) : i < k => assigned[i] < assigned[k]
    /\ \A i \in 1..Len(jobs) : jobs[i].id = IdOf(assigned[jobs[i].oid])
    /\ \A i, k \in 1..Len(jobs) : i # k => jobs[i].id # jobs[k].id

C1_Witness ==
    /\ Len(assigned) = MaxCreate
    /\ evicted # {}
    /\ cleared # {}
    /\ jobs # <<>>

\* C2: after every operation the collection holds at most max_jobs jobs, for
\* every max_jobs >= 0.
C2_SizeBounded == Len(jobs) <= max_jobs

C2_Witness ==
    /\ max_jobs > 0
    /\ Len(jobs) = max_jobs
    /\ evicted # {}

\* C3: a create_job that makes the collection longer than max_jobs removes
\* exactly one job, the one with the smallest id number, and keeps all others
\* in creation order; a create_job that does not overflow removes nothing.
\* With max_jobs = 3, four creations and no clear leave the 2nd, 3rd and 4th
\* created jobs in that order.
C3_EvictStep ==
    IsCreateStep =>
        LET before == IdsOf(jobs) \o <<IdOf(job_counter)>>
            after  == IdsOf(jobs')
            gone   == {id \in Range(before) : id \notin Range(after)}
        IN  /\ after = SelectSeq(before, LAMBDA id : id \notin gone)
            /\ IF Len(before) > max_jobs
               THEN /\ Cardinality(gone) = 1
                    /\ \A g \in gone : \A id \in Range(before) : g[2] <= id[2]
               ELSE gone = {}

C3_ScenarioStep ==
    (IsCreateStep /\ max_jobs = 3 /\ Len(assigned') = 4 /\ cleared = {})
        => IdsOf(jobs') = <<IdOf(2), IdOf(3), IdOf(4)>>

\* The new job is one of the jobs that stay: it is the last of the collection
\* after the call.
C3_NewJobStays ==
    IsCreateStep =>
        /\ jobs' # <<>>
        /\ jobs'[Len(jobs')].id = IdOf(job_counter)

\* C3 as stated: the job removed is never the new one, for every max_jobs.
C3_Original == [][C3_EvictStep /\ C3_ScenarioStep /\ C3_NewJobStays]_vars

\* C3 as amended: the new job stays when max_jobs >= 1; with max_jobs = 0 the
\* new job is itself the oldest job of the collection and is the one removed.
C3_EvictsOldest ==
    [][/\ C3_EvictStep
       /\ C3_ScenarioStep
       /\ (max_jobs >= 1 => C3_NewJobStays)
       /\ ((max_jobs = 0 /\ IsCreateStep) => jobs' = <<>>)]_vars

C3_Witness ==
    /\ max_jobs = 3
    /\ Len(assigned) = 4
    /\ cleared = {}
    /\ Len(jobs) = 3
    /\ evicted = {1}

\* C4: every change of a job's status is QUEUED -> RUNNING, RUNNING ->
\* COMPLETED or RUNNING -> FAILED; a COMPLETED or FAILED job keeps its status
\* while it is in the collection.
StatusMoves ==
    {<<"QUEUED", "RUNNING">>, <<"RUNNING", "COMPLETED">>, <<"RUNNING", "FAILED">>}

C4_Step ==
    \A j \in Range(jobs) : \A k \in Range(jobs') :
        j.id = k.id =>
            \/ k.status = j.status
            \/ <<j.status, k.status>> \in StatusMoves

C4_StatusMonotonic == [][C4_Step]_vars

C4_Witness ==
    /\ \E j \in Range(jobs) : j.status = "COMPLETED"
    /\ \E j \in Range(jobs) : j.status = "FAILED"
    /\ ret.op = "tick"

\* C5: one update_jobs call moves a job at most one step: a job QUEUED when
\* the call starts (or created by the same loop iteration) is QUEUED or
\* RUNNING when it ends, and a job that is terminal after the call and was
\* not terminal before it was RUNNING before it.
C5_Step ==
    ret'.op = "tick" =>
        \A k \in Range(jobs') :
            LET was == {j \in Range(jobs) : j.id = k.id}
            IN  /\ (was = {} \/ \E j \in was : j.status = "QUEUED")
                    => k.status \in {"QUEUED", "RUNNING"}
                /\ \A j \in was :
                       (k.status \in {"COMPLETED", "FAILED"} /\ k.status # j.status)
                           => j.status = "RUNNING"

C5_OneStepPerCall == [][C5_Step]_vars

C5_Witness ==
    /\ ret.op = "tick"
    /\ \E j \in Range(jobs) : j.status = "RUNNING"
    /\ \E j \in Range(jobs) : j.status = "COMPLETED"
    /\ \E j \in Range(jobs) : j.status = "QUEUED"

\* C6: clear_completed removes exactly the COMPLETED jobs, returns how many
\* it removed, keeps the other jobs in their order and leaves the id counter
\* alone.
C6_Step ==
    clear_completed_api =>
        /\ Range(jobs') = {j \in Range(jobs) : j.status # "COMPLETED"}
        /\ jobs' = SelectSeq(jobs, LAMBDA j : j \in Range(jobs'))
        /\ ret'.count = Len(jobs) - Len(jobs')
        /\ ret'.count = Cardinality({j \in Range(jobs) : j.status = "COMPLETED"})
        /\ job_counter' = job_counter

C6_ClearExact == [][C6_Step]_vars

C6_Witness ==
    /\ ret.op = "clear_completed"
    /\ ret.count = 1
    /\ Len(jobs) = 2
    /\ \E o \in cleared : jobs[1].oid < o /\ o < jobs[2].oid
    /\ \E j \in Range(jobs) : j.status = "FAILED"

\* C7: get_job(id) answers with the one job of the collection that has this
\* id (200), and with the not-found signal (404, no job) when the collection
\* has none, as for an evicted, a cleared or a never assigned id; it never
\* answers with a job of another id.
C7_GetJob ==
    ret.op = "get_job" =>
        LET hits == {j \in Range(jobs) : j.id = ret.arg}
        IN  IF hits # {}
            THEN /\ Cardinality(hits) = 1
                 /\ ret.code = 200
                 /\ Len(ret.jobs) = 1
                 /\ ret.jobs[1] \in hits
            ELSE /\ ret.code = 404
                 /\ ret.jobs = <<>>

C7_Witness ==
    /\ ret.op = "get_job"
    /\ ret.code = 404
    /\ jobs # <<>>
    /\ \E o \in cleared : ret.arg = IdOf(assigned[o])

\* C8: for a collection of n jobs and a limit in 0..n-1, get_jobs(limit)
\* returns exactly limit jobs, the last limit entries of the collection
\* sorted by (status priority, created_at).
C8_ExactlyLimit ==
    (ret.op = "get_jobs" /\ ret.arg \in 0..(Len(jobs) - 1)) =>
        /\ Len(ret.jobs) = ret.arg
        /\ ret.jobs = SubSeq(SortedJobs(jobs), Len(jobs) - ret.arg + 1, Len(jobs))


\* ======================================================== claims, concurrent
\* The creations that have read the counter for the id and have not stored
\* the incremented counter yet.
Incrementing == {t \in Threads : pc[t] \in {"c_load", "c_store"}}

\* The dicts that are built and not appended yet.
Unappended ==
    {cjob[t][1].oid : t \in {u \in Threads : pc[u] \in {"c_load", "c_store", "c_append"}}}

\* C9: with the loop thread and a request thread interleaving inside
\* create_job, no two jobs receive the same id, and the counter has advanced
\* by exactly one for every job whose creation has passed the increment.
C9_UniqueIdsConcurrent ==
    /\ \A i, k \in 1..Len(assigned) : i # k => assigned[i] # assigned[k]
    /\ job_counter = 1 + Len(assigned) - Cardinality(Incrementing)

\* C10: a job leaves the collection only by pop(0) at an overflowing
\* create_job or by being COMPLETED when clear_completed replaces the list:
\* every dict that was appended is in the collection, was evicted, or was
\* cleared as COMPLETED, also when an append falls between the filtering and
\* the replacement of the list.
C10_NoJobLost ==
    \A o \in 1..Len(assigned) :
        \/ o \in Unappended
        \/ \E j \in Range(jobs) : j.oid = o
        \/ o \in evicted
        \/ o \in cleared


\* C11: when update_jobs runs between the counting and the filtering of a
\* clear_completed, the count the handler returns still equals the number of
\* COMPLETED jobs the call removes from the collection.
C11_Step ==
    (pc["req"] = "k_store" /\ pc'["req"] = "idle")
        => ret'.count = Cardinality(cleared' \ cleared)

C11_CountMatchesRemoved == [][C11_Step]_vars


\* C12: a process never holds more than one simulator instance, hence never
\* more than one background loop, also when two first requests both test
\* "simulator is None" before either stores its instance.
C12_OneSimulator == Len(instances) <= 1


\* C13: under fair ticking every QUEUED job that is not evicted becomes
\* RUNNING, and every RUNNING job that is not evicted becomes COMPLETED or
\* FAILED.
C13_Progress ==
    \A o \in 1..MaxCreate :
        /\ HasStatus(o, "QUEUED") ~> (HasStatus(o, "RUNNING") \/ o \in evicted)
        /\ HasStatus(o, "RUNNING")
               ~> (HasStatus(o, "COMPLETED") \/ HasStatus(o, "FAILED")
                   \/ o \in evicted)

\* A job that went from QUEUED to a terminal status while an older one was
\* evicted.
C13_Witness ==
    /\ evicted # {}
    /\ \E i \in 1..Len(jobs) : jobs[i].status \in {"COMPLETED", "FAILED"}
    /\ \E i \in 1..Len(jobs) : jobs[i].status = "RUNNING"


\* The display rank of a status: RUNNING < QUEUED < FAILED < COMPLETED.
Rank(st) ==
    IF st = "RUNNING" THEN 1 ELSE IF st = "QUEUED" THEN 2
    ELSE IF st = "FAILED" THEN 3 ELSE 4

\* C14: the list GET /api/jobs returns is ascending by status rank and, within
\* a rank, by created_at; each entry is a job of the collection and none is
\* repeated; with limit at least the size of the collection every job is in it.
C14_SortedListing ==
    ret.op = "get_jobs" =>
        /\ \A i \in 1..(Len(ret.jobs) - 1) :
             \/ Rank(ret.jobs[i].status) < Rank(ret.jobs[i + 1].status)
             \/ /\ Rank(ret.jobs[i].status) = Rank(ret.jobs[i + 1].status)
                /\ ret.jobs[i].created_at <= ret.jobs[i + 1].created_at
        /\ \A i \in 1..Len(ret.jobs) : ret.jobs[i] \in Range(jobs)
        /\ \A i, k \in 1..Len(ret.jobs) : i # k => ret.jobs[i].oid # ret.jobs[k].oid
        /\ ret.arg >= Len(jobs) =>
             /\ Len(ret.jobs) = Len(jobs)
             /\ Range(ret.jobs) = Range(jobs)

\* A full listing of two jobs of one status whose creation times put the
\* younger dict first.
C14_Witness ==
    /\ ret.op = "get_jobs"
    /\ ret.arg >= Len(jobs)
    /\ Len(jobs) = 2
    /\ jobs[1].status = jobs[2].status
    /\ jobs[2].created_at < jobs[1].created_at
    /\ ret.jobs = <<jobs[2], jobs[1]>>


\* C15: a loop iteration creates at most one job; the job it creates has
\* manual = false and is QUEUED or RUNNING, never terminal, when the iteration
\* ends; a job has manual = true exactly when POST /api/create_job created it,
\* and keeps the flag.
C15_Step ==
    /\ ret'.op = "tick" => Len(assigned') <= Len(assigned) + 1
    /\ \A k \in 1..Len(jobs') :
         (IsCreateStep /\ jobs'[k].oid = Len(assigned')) =>
             /\ jobs'[k].manual <=> (ret'.op = "create_job")
             /\ ret'.op = "tick" => jobs'[k].status \in {"QUEUED", "RUNNING"}
    /\ \A i \in 1..Len(jobs), k \in 1..Len(jobs') :
         jobs[i].oid = jobs'[k].oid => jobs'[k].manual = jobs[i].manual

C15_TickCreatesOneAutomaticJob == [][C15_Step]_vars

\* The end of an iteration that created a job and already started it, beside a
\* job a request created.
C15_Witness ==
    /\ ret.op = "tick"
    /\ ret.arg # 0
    /\ \E k \in 1..Len(jobs) :
         /\ jobs[k].oid = ret.arg
         /\ jobs[k].status = "RUNNING"
         /\ ~jobs[k].manual
    /\ \E k \in 1..Len(jobs) : jobs[k].manual


\* C16: once the run flag is false the loop starts no further iteration (it
\* does not pass the "while" test again, and after leaving the loop it does
\* nothing), and the loop thread ends.
C16_Step ==
    /\ ~running => ~(pc["loop"] = "while" /\ pc'["loop"] = "coin")
    /\ pc["loop"] = "exit" =>
           /\ pc'["loop"] = "exit"
           /\ cjob'["loop"] = cjob["loop"]
           /\ Len(assigned') = Len(assigned) \/ pc["req"] = "c_id"

C16_CooperativeStop ==
    /\ [][C16_Step]_vars
    /\ ~running ~> (pc["loop"] \in {"exit", "dead"})

\* The loop has left "while self.running" after the flag was cleared, having
\* created a job before.
C16_Witness ==
    /\ ~running
    /\ pc["loop"] = "exit"
    /\ \E i \in 1..Len(jobs) : ~jobs[i].manual


\* C17: a loop iteration that only calls update_jobs leaves the number and
\* order of the jobs, the counter and every field but status as they were; and
\* no operation changes id, type, created_at, estimated_runtime,
\* success_probability or manual of a job that stays in the collection.
C17_Step ==
    /\ (ret'.op = "tick" /\ ret'.arg = 0) =>
           /\ job_counter' = job_counter
           /\ Len(jobs') = Len(jobs)
           /\ \A i \in 1..Len(jobs) :
                [jobs'[i] EXCEPT !.status = jobs[i].status] = jobs[i]
    /\ \A i \in 1..Len(jobs), k \in 1..Len(jobs') :
         jobs[i].oid = jobs'[k].oid =>
             [jobs'[k] EXCEPT !.status = jobs[i].status] = jobs[i]

C17_OnlyStatusChanges == [][C17_Step]_vars

\* After an iteration that created nothing: of two jobs requests created, one
\* has been started and one has finished.
C17_Witness ==
    /\ ret.op = "tick"
    /\ ret.arg = 0
    /\ Len(jobs) = 2
    /\ \A i \in 1..2 : jobs[i].manual
    /\ \E i \in 1..2 : jobs[i].status = "RUNNING"
    /\ \E i \in 1..2 : jobs[i].status \in {"COMPLETED", "FAILED"}


\* C18: with the operations run one at a time, the jobs of the collection are
\* in strictly ascending order of id number, so the job at index 0 is the one
\* created first.
C18_AscendingIds ==
    \A i, k \in 1..Len(jobs) : i < k => jobs[i].id[2] < jobs[k].id[2]

\* Two jobs are left after an eviction and a clear_completed.
C18_Witness ==
    /\ Len(jobs) = 2
    /\ evicted # {}
    /\ cleared # {}

\* C19: for max_jobs >= 1, when POST /api/create_job returns job j, j is
\* QUEUED, j is the last entry of the collection, get_job(j.id) yields j, and
\* the counter is one more than before the call.
C19_Step ==
    (ret'.op = "create_job" /\ max_jobs >= 1) =>
        /\ ret'.jobs[1].status = "QUEUED"
        /\ Len(jobs') >= 1
        /\ jobs'[Len(jobs')] = ret'.jobs[1]
        /\ get_job(jobs', ret'.jobs[1].id) = <<ret'.jobs[1]>>
        /\ job_counter' = job_counter + 1

C19_CreatePostcondition == [][C19_Step]_vars

\* A create at full capacity has returned: an older job was evicted and the
\* new one is last.
C19_Witness ==
    /\ ret.op = "create_job"
    /\ max_jobs >= 1
    /\ Len(jobs) = max_jobs
    /\ evicted # {}
    /\ jobs[Len(jobs)] = ret.jobs[1]


\* C20: GET /api/jobs and GET /api/job/<id> change nothing of the engine; the
\* listing sorts a copy, so the collection keeps its insertion order.
C20_Step ==
    ret'.op \in {"get_jobs", "get_job"} =>
        /\ jobs' = jobs
        /\ job_counter' = job_counter
        /\ max_jobs' = max_jobs
        /\ running' = running

C20_ReadsChangeNothing == [][C20_Step]_vars

\* A listing that put a RUNNING job before an older COMPLETED one, with the
\* collection still in insertion order.
C20_Witness ==
    /\ ret.op = "get_jobs"
    /\ Len(jobs) = 2
    /\ jobs[1].status = "COMPLETED"
    /\ jobs[2].status = "RUNNING"
    /\ jobs[1].oid < jobs[2].oid
    /\ ret.jobs = <<jobs[2], jobs[1]>>

=============================================================================
